---- MODULE Spec2Model ----
(***************************************************************************)
(* Model of the two skill tools of scripts/skill-tools:                    *)
(*   package_skill.py  SkillValidator and the packager CLI (main,          *)
(*                     package_skill)                                      *)
(*   init_skill.py     the scaffolder CLI (main, create_skill_structure)   *)
(*                                                                         *)
(* Strings are sequences of one-character strings.  Paths are sequences of *)
(* path components.  The filesystem is the set of regular files, the set   *)
(* of directories and the set of files with the execute bit.               *)
(*                                                                         *)
(* The text of SKILL.md is a sequence of segments: a segment is either the *)
(* four characters '---\n' (t = "delim") or a maximal block of text that   *)
(* does not contain '---\n' (t = "block").  A block carries its characters *)
(* (chars) and the value yaml.safe_load returns for it (doc).              *)
(***************************************************************************)
EXTENDS Integers, Sequences, FiniteSets, TLC

VARIABLES
    cmd,        \* entry point of the run: "validate", "package" or "init"
    pc,         \* position of the run
    files,      \* regular files of the filesystem (paths)
    dirs,       \* directories of the filesystem (paths)
    execs,      \* files the current user may execute (paths)
    content,    \* text of <skill_path>/SKILL.md when it is a regular file
    zips,       \* entries of the zip file at output_file (archive names)
    errors,     \* SkillValidator.errors
    warnings,   \* SkillValidator.warnings
    is_valid,   \* value returned by SkillValidator.validate(): "unset", "True", "False"
    output_dir, \* packager: Path(args.output_dir); scaffolder: Path(args.path)
    io,         \* outcome the filesystem gives the write phase: "ok", "open", "write"
    arg,        \* scaffolder: args.skill_name as typed
    skill_name, \* scaffolder: the skill_name of main
    exit_code,  \* exit status of the process; -1 while it runs
    files0,     \* regular files when the run started
    zips0       \* entries of the zip file at output_file when the run started

vars == <<cmd, pc, files, dirs, execs, content, zips, errors, warnings, is_valid,
          output_dir, io, arg, skill_name, exit_code, files0, zips0>>

----------------------------------------------------------------------------
(* Bounds of the model *)

\* longest name enumerated character by character in a frontmatter header
MaxShortLen == 1
\* number of candidate files directly under scripts/
MaxScripts == 2
\* longest skill name typed on the scaffolder's command line
MaxArgLen == 2

----------------------------------------------------------------------------
(* Strings *)

\* the character c, n times
Rep(c, n) == [i \in 1..n |-> c]

\* prefix, padded on the right with c up to length n
Fill(prefix, n, c) == prefix \o Rep(c, n - Len(prefix))

\* all strings over alphabet of length at most n
StringsUpTo(alphabet, n) == UNION {[1..k -> alphabet] : k \in 0..n}

Letters == {"a", "b", "d", "x", "A", "T", "O", "D"}
Digits == {"1"}
Whitespace == {" ", "\n"}

\* str.replace(c, '')
Remove(s, c) == SelectSeq(s, LAMBDA ch : ch # c)

\* str.isalnum(): every character alphanumeric and at least one character
IsAlnum(s) == Len(s) > 0 /\ \A i \in 1..Len(s) : s[i] \in Letters \cup Digits

\* str.lower()
LowerChar(ch) ==
    CASE ch = "A" -> "a"
      [] ch = "T" -> "t"
      [] ch = "O" -> "o"
      [] ch = "D" -> "d"
      [] OTHER -> ch
Lower(s) == [i \in 1..Len(s) |-> LowerChar(s[i])]

\* str.startswith(p)
StartsWith(s, p) == Len(s) >= Len(p) /\ SubSeq(s, 1, Len(p)) = p

\* str.strip()
RECURSIVE LStrip(_)
LStrip(s) == IF s # <<>> /\ Head(s) \in Whitespace THEN LStrip(Tail(s)) ELSE s
RECURSIVE RStrip(_)
RStrip(s) ==
    IF s # <<>> /\ s[Len(s)] \in Whitespace THEN RStrip(SubSeq(s, 1, Len(s) - 1)) ELSE s
Strip(s) == RStrip(LStrip(s))

Todo == <<"T", "O", "D", "O", ":">>

----------------------------------------------------------------------------
(* Paths and the filesystem *)

\* the skill folder given to the packager is skills/foo
SkillParent == <<"skills">>
SkillName == "foo"
skill_path == SkillParent \o <<SkillName>>

Join(p, name) == p \o <<name>>
IsPrefix(p, q) == Len(p) <= Len(q) /\ SubSeq(q, 1, Len(p)) = p
IsUnder(p, q) == Len(p) < Len(q) /\ SubSeq(q, 1, Len(p)) = p
Prefixes(p) == {SubSeq(p, 1, k) : k \in 1..Len(p)}

\* Path.exists()
Exists(p) == p \in files \cup dirs

\* PurePath.relative_to(base)
RelativeTo(p, base) == SubSeq(p, Len(base) + 1, Len(p))

\* Path.name
BaseName(p) == p[Len(p)]

----------------------------------------------------------------------------
(* Findings *)

Msg(id, n, file) == [id |-> id, n |-> n, file |-> file]
Plain(id) == Msg(id, 0, "")

----------------------------------------------------------------------------
(* SKILL.md text *)

Delim == [t |-> "delim", doc |-> [kind |-> "none"], chars |-> <<"-", "-", "-", "\n">>]
Block(doc, chars) == [t |-> "block", doc |-> doc, chars |-> chars]

\* a key of a parsed header
Field(present, isStr, val) == [present |-> present, isStr |-> isStr, val |-> val]
MissingField == Field(FALSE, FALSE, <<>>)
NonStringField == Field(TRUE, FALSE, <<>>)
Str(val) == Field(TRUE, TRUE, val)

\* values of yaml.safe_load
Mapping(name, desc) == [kind |-> "dict", name |-> name, description |-> desc]
NoFields == [kind |-> "dict", name |-> MissingField, description |-> MissingField]
YamlErrorDoc == [NoFields EXCEPT !.kind = "error"]
ScalarDoc == [NoFields EXCEPT !.kind = "scalar"]
NullDoc == [NoFields EXCEPT !.kind = "null"]

\* index of the first '---\n' of segs, 0 when there is none
RECURSIVE FirstDelimFrom(_, _)
FirstDelimFrom(segs, i) ==
    IF i > Len(segs) THEN 0
    ELSE IF segs[i].t = "delim" THEN i
    ELSE FirstDelimFrom(segs, i + 1)

\* str.split('---\n', maxsplit)
RECURSIVE Split(_, _)
Split(segs, maxsplit) ==
    LET i == FirstDelimFrom(segs, 1) IN
    IF maxsplit = 0 \/ i = 0 THEN <<segs>>
    ELSE <<SubSeq(segs, 1, i - 1)>> \o Split(SubSeq(segs, i + 1, Len(segs)), maxsplit - 1)

\* the characters of a piece of text
RECURSIVE Chars(_)
Chars(segs) == IF segs = <<>> THEN <<>> ELSE Head(segs).chars \o Chars(Tail(segs))

\* the check of line 57 left out
StartsWithDelim_NotChecked(segs) == TRUE

\* line 57: content.startswith('---\n')
StartsWithDelim(segs) == segs # <<>> /\ segs[1].t = "delim"

\* yaml.safe_load(text): the empty document loads as None
SafeLoad(segs) == IF segs = <<>> THEN NullDoc ELSE segs[1].doc

----------------------------------------------------------------------------
(* SkillValidator *)

MaxNameLen == 64
MaxDescLen == 1024

skill_md == Join(skill_path, "SKILL.md")
scripts_dir == Join(skill_path, "scripts")
references_dir == Join(skill_path, "references")

\* line 88 with >= for >
TooLong_OffByOne(name) == Len(name) >= MaxNameLen

\* line 88: len(name) > 64
TooLong(name) == Len(name) > MaxNameLen

\* lines 81-91: the findings of the name field of a header mapping
NameErrors(fm) ==
    LET name == fm.name.val IN
    IF ~fm.name.present THEN <<Plain("name_missing")>>
    ELSE IF ~fm.name.isStr \/ name = <<>> THEN <<Plain("name_not_string")>>
    ELSE IF TooLong(name) THEN <<Msg("name_too_long", Len(name), "")>>
    ELSE IF ~IsAlnum(Remove(Remove(Remove(name, "-"), "_"), "."))
         THEN <<Plain("name_bad_chars")>>
    ELSE <<>>

\* lines 93-103: the findings of the description field of a header mapping
DescErrors(fm) ==
    LET desc == fm.description.val IN
    IF ~fm.description.present THEN <<Plain("description_missing")>>
    ELSE IF ~fm.description.isStr \/ desc = <<>> THEN <<Plain("description_not_string")>>
    ELSE IF Len(desc) > MaxDescLen THEN <<Msg("description_too_long", Len(desc), "")>>
    ELSE <<>>

DescWarnings(fm) ==
    IF DescErrors(fm) = <<>> /\ StartsWith(fm.description.val, Todo)
    THEN <<Plain("description_todo")>>
    ELSE <<>>

\* lines 105-110: the findings of the text after the closing delimiter
BodyWarnings(body) ==
    LET markdown_content == Strip(Chars(body)) IN
    IF markdown_content = <<>> THEN <<Plain("body_empty")>>
    ELSE IF StartsWith(markdown_content, Todo) THEN <<Plain("body_todo")>>
    ELSE <<>>

\* lines 48-110: what _validate_frontmatter appends, and whether it raises
Frontmatter ==
    LET parts == Split(content, 2)
        frontmatter == SafeLoad(parts[2])
        Result(e, w, raised) == [e |-> e, w |-> w, raised |-> raised]
    IN
    IF ~Exists(skill_md) THEN Result(<<>>, <<>>, FALSE)
    ELSE IF skill_md \in dirs THEN Result(<<>>, <<>>, TRUE)
    ELSE IF ~StartsWithDelim(content) THEN Result(<<Plain("no_frontmatter")>>, <<>>, FALSE)
    ELSE IF Len(parts) < 3 THEN Result(<<Plain("frontmatter_not_closed")>>, <<>>, FALSE)
    ELSE IF frontmatter.kind = "error" THEN Result(<<Plain("invalid_yaml")>>, <<>>, FALSE)
    ELSE IF frontmatter.kind # "dict" THEN Result(<<Plain("not_a_mapping")>>, <<>>, FALSE)
    ELSE Result(NameErrors(frontmatter) \o DescErrors(frontmatter),
                DescWarnings(frontmatter) \o BodyWarnings(parts[3]),
                FALSE)

\* lines 112-118: what _check_directory_structure appends
StructureWarnings ==
    (IF ~Exists(scripts_dir) THEN <<Plain("no_scripts_dir")>> ELSE <<>>)
    \o (IF ~Exists(references_dir) THEN <<Plain("no_references_dir")>> ELSE <<>>)

\* line 126: the regular files directly under scripts/
script_files == {f \in files : Len(f) = Len(scripts_dir) + 1 /\ IsPrefix(scripts_dir, f)}

\* the orders in which iterdir() may yield the members of a set
Orders(S) == {o \in [1..Cardinality(S) -> S] : \A i, j \in DOMAIN o : o[i] = o[j] => i = j}

\* lines 132-135 without the os.access test of line 134
ScriptWarnings_EveryFile(listing) ==
    [i \in 1..Len(listing) |-> Msg("script_not_executable", 0, BaseName(listing[i]))]

\* lines 132-135: one warning for each file of the listing without the execute bit
ScriptWarnings(listing) ==
    LET plain == SelectSeq(listing, LAMBDA f : f \notin execs) IN
    [i \in 1..Len(plain) |-> Msg("script_not_executable", 0, BaseName(plain[i]))]

\* the early return of lines 33-34 left out
EarlyReturn_Never(e) == FALSE

\* lines 33-34: validate() returns after the existence check
EarlyReturn(e) == e # <<>>

\* line 40 returning True whatever was found
Verdict_AlwaysTrue(e) == "True"

\* line 40: the value validate() returns after the last check
Verdict(e) == IF Len(e) = 0 THEN "True" ELSE "False"

\* an exception leaves validate(): it reaches main uncaught, or the caller
Raise ==
    /\ pc' = "raised"
    /\ exit_code' = IF cmd = "validate" THEN exit_code ELSE 1

\* lines 32-34 and 42-46
CheckSkillMdExists ==
    /\ pc = "check_skill_md"
    /\ LET found == IF ~Exists(skill_md) THEN <<Plain("missing_skill_md")>> ELSE <<>> IN
       /\ errors' = errors \o found
       /\ IF EarlyReturn(errors')
          THEN pc' = "validated" /\ is_valid' = "False"
          ELSE pc' = "frontmatter" /\ is_valid' = is_valid
    /\ UNCHANGED <<cmd, files, dirs, execs, content, zips, warnings, output_dir, io, arg,
                   skill_name, exit_code, files0, zips0>>

\* line 36 followed by a return when the frontmatter drew an error
ValidateFrontmatter_StopOnError ==
    /\ pc = "frontmatter"
    /\ IF Frontmatter.raised
       THEN Raise /\ UNCHANGED <<errors, warnings, is_valid>>
       ELSE /\ errors' = errors \o Frontmatter.e
            /\ warnings' = warnings \o Frontmatter.w
            /\ IF errors' # <<>>
               THEN pc' = "validated" /\ is_valid' = "False"
               ELSE pc' = "structure" /\ is_valid' = is_valid
            /\ UNCHANGED exit_code
    /\ UNCHANGED <<cmd, files, dirs, execs, content, zips, output_dir, io, arg,
                   skill_name, files0, zips0>>

\* line 36
ValidateFrontmatter ==
    /\ pc = "frontmatter"
    /\ IF Frontmatter.raised
       THEN Raise /\ UNCHANGED <<errors, warnings>>
       ELSE /\ errors' = errors \o Frontmatter.e
            /\ warnings' = warnings \o Frontmatter.w
            /\ pc' = "structure"
            /\ UNCHANGED exit_code
    /\ UNCHANGED <<cmd, files, dirs, execs, content, zips, is_valid, output_dir, io, arg,
                   skill_name, files0, zips0>>

\* line 37
CheckDirectoryStructure ==
    /\ pc = "structure"
    /\ warnings' = warnings \o StructureWarnings
    /\ pc' = "scripts"
    /\ UNCHANGED <<cmd, files, dirs, execs, content, zips, errors, is_valid, output_dir, io,
                   arg, skill_name, exit_code, files0, zips0>>

\* lines 38-40 and 120-135
ValidateScripts ==
    /\ pc = "scripts"
    /\ IF scripts_dir \in files
       THEN Raise /\ UNCHANGED <<warnings, is_valid>>
       ELSE /\ IF ~Exists(scripts_dir) THEN warnings' = warnings
               ELSE IF script_files = {} THEN warnings' = warnings \o <<Plain("scripts_empty")>>
               ELSE \E listing \in Orders(script_files) :
                        warnings' = warnings \o ScriptWarnings(listing)
            /\ is_valid' = Verdict(errors)
            /\ pc' = "validated"
            /\ UNCHANGED exit_code
    /\ UNCHANGED <<cmd, files, dirs, execs, content, zips, errors, output_dir, io, arg,
                   skill_name, files0, zips0>>

----------------------------------------------------------------------------
(* Inputs: the skill folders and SKILL.md texts the runs start from *)

NameChars == {"a", "-", "_", ".", "!"}
ShortNames == StringsUpTo(NameChars, MaxShortLen)
LongNames == {Fill(<<c>>, n, "a") : c \in NameChars, n \in {MaxNameLen, MaxNameLen + 1}}
NameFields == {MissingField, NonStringField} \cup {Str(n) : n \in ShortNames \cup LongNames}

Descs == {Fill(p, n, "d") : p \in {<<>>, Todo}, n \in {0, MaxDescLen, MaxDescLen + 1}}
DescFields == {MissingField, NonStringField} \cup {Str(d) : d \in Descs}

Docs == {YamlErrorDoc, ScalarDoc} \cup {Mapping(n, d) : n \in NameFields, d \in DescFields}
PlaceholderDoc == Mapping(Str(<<"a">>), Str(Todo))
FinishedDoc == Mapping(Str(<<"a">>), Str(<<"d">>))
FewDocs == {YamlErrorDoc, NoFields, PlaceholderDoc, FinishedDoc}

Header(doc) == Block(doc, <<"k">>)
Text(chars) == Block(ScalarDoc, chars)

\* the text after the closing delimiter: nothing or a placeholder, and blank,
\* finished, or holding a further '---\n'
FewBodies ==
    { <<>>,
      <<Text(<<"\n">> \o Todo \o <<"x">>)>> }
Bodies ==
    FewBodies
    \cup { <<Text(<<"\n", " ">>)>>,
           <<Text(<<"x", "\n">>)>>,
           <<Text(<<"\n">>), Delim, Text(Todo)>> }

Contents ==
    {<<>>, <<Text(Todo)>>, <<Delim>>}
    \cup {<<Text(<<"x">>), Delim, Header(d), Delim>> : d \in FewDocs}
    \cup {<<Delim, Header(d)>> : d \in FewDocs}
    \cup {<<Delim, Delim>> \o b : b \in Bodies}
    \cup {<<Delim, Header(d), Delim>> \o b : d \in Docs, b \in FewBodies}
    \cup {<<Delim, Header(d), Delim>> \o b : d \in FewDocs, b \in Bodies}

AllScriptNames == <<"run.sh", "build.sh", "test.sh", "lint.sh">>
ScriptNames == {AllScriptNames[i] : i \in 1..MaxScripts}

\* a skill folder: SKILL.md and scripts absent, a regular file or a directory; each
\* candidate script absent, executable or plain; a nested directory scripts/sub
\* with one plain file; references/ with one document
Tree(md, scr, kids, sub, refs) ==
    LET kidFiles == IF scr = "dir"
                    THEN {Join(scripts_dir, k) : k \in {k \in ScriptNames : kids[k] # "absent"}}
                    ELSE {}
        subDir == Join(scripts_dir, "sub")
        hasSub == scr = "dir" /\ sub
    IN
    [ files |-> (IF md = "file" THEN {skill_md} ELSE {})
                \cup (IF scr = "file" THEN {scripts_dir} ELSE {})
                \cup kidFiles
                \cup (IF hasSub THEN {Join(subDir, "nested.sh")} ELSE {})
                \cup (IF refs THEN {Join(references_dir, "reference.md")} ELSE {}),
      dirs |-> {SkillParent, skill_path}
               \cup (IF md = "dir" THEN {skill_md} ELSE {})
               \cup (IF scr = "dir" THEN {scripts_dir} ELSE {})
               \cup (IF hasSub THEN {subDir} ELSE {})
               \cup (IF refs THEN {references_dir} ELSE {}),
      execs |-> {f \in kidFiles : kids[BaseName(f)] = "exec"} ]

Kinds == {"absent", "file", "dir"}
NoKids == [k \in ScriptNames |-> "absent"]

Trees ==
    {Tree(md, scr, NoKids, FALSE, refs) :
        md \in Kinds, scr \in {"absent", "file"}, refs \in BOOLEAN}
    \cup {Tree(md, "dir", kids, sub, refs) :
            md \in Kinds, kids \in [ScriptNames -> {"absent", "exec", "plain"}],
            sub \in BOOLEAN, refs \in BOOLEAN}

\* SkillValidator(skill_path) constructed (lines 25-28), validate() about to run
InitValidate ==
    /\ cmd = "validate"
    /\ pc = "check_skill_md"
    /\ \E t \in Trees :
          /\ files = t.files
          /\ dirs = t.dirs
          /\ execs = t.execs
          /\ content \in (IF skill_md \in t.files THEN Contents ELSE {<<>>})
    /\ zips = {}
    /\ errors = <<>>
    /\ warnings = <<>>
    /\ is_valid = "unset"
    /\ output_dir = <<>>
    /\ io = "ok"
    /\ arg = <<>>
    /\ skill_name = <<>>
    /\ exit_code = -1
    /\ files0 = files
    /\ zips0 = zips

----------------------------------------------------------------------------
(* Packager CLI: package_skill.py main and package_skill *)

\* line 159: output_dir / f"{skill_name}.zip", skill_name being skill_path.name
ZipName == "foo.zip"
output_file == Join(output_dir, ZipName)

\* lines 164-165: the regular files rglob('*') finds under skill_path in fs
Walk(fs) == {f \in fs : IsUnder(skill_path, f)}

\* lines 166-168: the archive names of the files written to the zip
ArchiveNames(fs) == {RelativeTo(f, SkillParent) : f \in Walk(fs)}

Exit(code) == pc' = "exited" /\ exit_code' = code

\* the exit of lines 209-211 left out
Rejected_Never(v) == FALSE

\* line 209: if not is_valid
Rejected(v) == v # "True"

\* lines 188-198
MainCheckPath ==
    /\ cmd = "package"
    /\ pc = "main"
    /\ IF ~Exists(skill_path) THEN Exit(1)
       ELSE IF skill_path \notin dirs THEN Exit(1)
       ELSE pc' = "mkdir" /\ UNCHANGED exit_code
    /\ UNCHANGED <<cmd, files, dirs, execs, content, zips, errors, warnings, is_valid,
                   output_dir, io, arg, skill_name, files0, zips0>>

\* lines 200-205: mkdir(parents=True, exist_ok=True) raises when a regular file
\* stands at the path or at one of its parents; nothing catches it
MainMkdir ==
    /\ cmd = "package"
    /\ pc = "mkdir"
    /\ IF Prefixes(output_dir) \cap files # {}
       THEN pc' = "raised" /\ exit_code' = 1 /\ dirs' = dirs
       ELSE pc' = "check_skill_md" /\ dirs' = dirs \cup Prefixes(output_dir)
            /\ UNCHANGED exit_code
    /\ UNCHANGED <<cmd, files, execs, content, zips, errors, warnings, is_valid,
                   output_dir, io, arg, skill_name, files0, zips0>>

\* lines 206-211
MainReport ==
    /\ cmd = "package"
    /\ pc = "validated"
    /\ IF Rejected(is_valid) THEN Exit(1)
       ELSE pc' = "package" /\ UNCHANGED exit_code
    /\ UNCHANGED <<cmd, files, dirs, execs, content, zips, errors, warnings, is_valid,
                   output_dir, io, arg, skill_name, files0, zips0>>

\* lines 213-225 and 155-170.  ZipFile(output_file, 'w') creates or truncates the
\* file before the walk starts.  io = "open": that call raises.  io = "write": a
\* write raises after any part of the files, in whatever order the walk had.
PackageSkill ==
    /\ cmd = "package"
    /\ pc = "package"
    /\ IF io = "open"
       THEN Exit(1) /\ UNCHANGED <<files, zips>>
       ELSE /\ files' = files \cup {output_file}
            /\ IF io = "write"
               THEN /\ \E part \in SUBSET ArchiveNames(files') :
                         part # ArchiveNames(files') /\ zips' = part
                    /\ Exit(1)
               ELSE /\ zips' = ArchiveNames(files')
                    /\ pc' = "packaged"
                    /\ exit_code' = 0
    /\ UNCHANGED <<cmd, dirs, execs, content, errors, warnings, is_valid,
                   output_dir, io, arg, skill_name, files0, zips0>>

\* the texts of SKILL.md the packager runs start from
PackNames == {<<"a">>, <<"!">>}
PackDescs == {<<"d">>, Todo}
PackContents ==
    {<<>>} \cup {<<Delim, Header(Mapping(Str(n), Str(d))), Delim>> \o b :
                    n \in PackNames, d \in PackDescs, b \in FewBodies}

\* the output directories: outside the skill folder (below a parent that may not
\* exist yet), the skill folder itself, a directory inside the skill folder
OutsideDir == <<"out", "dist">>
InsideDir == Join(skill_path, "dist")
OutDirs == {OutsideDir, skill_path, InsideDir}

\* what stands at the output directory od before the run: nothing, a regular
\* file, a directory, a directory holding an archive of the same name
OutStates(od) == IF od = skill_path THEN {"dir", "archive"}
                 ELSE {"absent", "file", "dir", "archive"}
OutFiles(od, st) ==
    CASE st = "file" -> {od}
      [] st = "archive" -> {Join(od, ZipName)}
      [] OTHER -> {}
OutDirsOf(od, st) ==
    CASE st \in {"dir", "archive"} -> Prefixes(od)
      [] st = "file" -> Prefixes(od) \ {od}
      [] OTHER -> {}
OldEntries == {<<"old", "SKILL.md">>}

\* the process started, arguments parsed (lines 174-188)
InitPackage ==
    /\ cmd = "package"
    /\ pc = "main"
    /\ \/ /\ files = {} /\ dirs = {SkillParent} /\ execs = {} /\ content = <<>>
          /\ output_dir = OutsideDir /\ zips = {} /\ io = "ok"
       \/ /\ files = {skill_path} /\ dirs = {SkillParent} /\ execs = {} /\ content = <<>>
          /\ output_dir = OutsideDir /\ zips = {} /\ io = "ok"
       \/ \E t \in Trees, od \in OutDirs :
            \E st \in OutStates(od) :
              /\ files = t.files \cup OutFiles(od, st)
              /\ dirs = t.dirs \cup OutDirsOf(od, st)
              /\ execs = t.execs
              /\ content \in (IF skill_md \in t.files THEN PackContents ELSE {<<>>})
              /\ output_dir = od
              /\ zips = IF st = "archive" THEN OldEntries ELSE {}
              /\ io \in {"ok", "open", "write"}
    /\ errors = <<>>
    /\ warnings = <<>>
    /\ is_valid = "unset"
    /\ arg = <<>>
    /\ skill_name = <<>>
    /\ exit_code = -1
    /\ files0 = files
    /\ zips0 = zips

----------------------------------------------------------------------------
(* Scaffolder CLI: init_skill.py main and create_skill_structure *)

\* line 179
skill_dir == Join(output_dir, skill_name)

\* lines 180-214: the filesystem calls of create_skill_structure, in order
Call(op, path) == [op |-> op, path |-> path]
Steps(sd) ==
    << Call("mkdir", sd),
       Call("mkdir", Join(sd, "scripts")),
       Call("mkdir", Join(sd, "references")),
       Call("mkdir", Join(sd, "assets")),
       Call("touch", Join(Join(sd, "assets"), ".gitkeep")),
       Call("write", Join(sd, "SKILL.md")),
       Call("write", Join(Join(sd, "scripts"), "example.sh")),
       Call("chmod", Join(Join(sd, "scripts"), "example.sh")),
       Call("write", Join(Join(sd, "references"), "reference.md")),
       Call("write", Join(sd, "README.md")) >>

\* the paths the first k calls gave to the calls named in ops
Done(sd, k, ops) == {Steps(sd)[i].path : i \in {i \in 1..k : Steps(sd)[i].op \in ops}}

\* lines 233-239
InitCheckName ==
    /\ cmd = "init"
    /\ pc = "init_main"
    /\ skill_name' = Lower(arg)
    /\ IF ~IsAlnum(Remove(Remove(skill_name', "-"), "_")) THEN Exit(1)
       ELSE pc' = "init_mkdir" /\ UNCHANGED exit_code
    /\ UNCHANGED <<cmd, files, dirs, execs, content, zips, errors, warnings, is_valid,
                   output_dir, io, arg, files0, zips0>>

\* lines 241-243: nothing catches what this mkdir raises
InitMkdir ==
    /\ cmd = "init"
    /\ pc = "init_mkdir"
    /\ IF Prefixes(output_dir) \cap files # {}
       THEN pc' = "raised" /\ exit_code' = 1 /\ dirs' = dirs
       ELSE pc' = "create" /\ dirs' = dirs \cup Prefixes(output_dir)
            /\ UNCHANGED exit_code
    /\ UNCHANGED <<cmd, files, execs, content, zips, errors, warnings, is_valid,
                   output_dir, io, arg, skill_name, files0, zips0>>

\* lines 245-257 and 175-216.  The first mkdir raises when a regular file stands
\* at skill_dir.  io = "fail": one of the calls raises, after k of them returned.
CreateSkillStructure ==
    /\ cmd = "init"
    /\ pc = "create"
    /\ \E k \in 0..Len(Steps(skill_dir)) :
         /\ IF skill_dir \in files THEN k = 0
            ELSE IF io = "fail" THEN k < Len(Steps(skill_dir))
            ELSE k = Len(Steps(skill_dir))
         /\ dirs' = dirs \cup Done(skill_dir, k, {"mkdir"})
         /\ files' = files \cup Done(skill_dir, k, {"touch", "write"})
         /\ execs' = execs \cup Done(skill_dir, k, {"chmod"})
         /\ IF k = Len(Steps(skill_dir))
            THEN pc' = "created" /\ exit_code' = 0
            ELSE Exit(1)
    /\ UNCHANGED <<cmd, content, zips, errors, warnings, is_valid,
                   output_dir, io, arg, skill_name, files0, zips0>>

ArgChars == {"a", "A", "1", "-", "_", " "}
Args == StringsUpTo(ArgChars, MaxArgLen)

\* the default --path
SkillsDir == <<"skills">>

\* the process started, arguments parsed (lines 220-233); before the run nothing,
\* a regular file or a directory stands at the output directory, and in the
\* directory nothing, a regular file or a directory stands at the skill's path
InitScaffold ==
    /\ cmd = "init"
    /\ pc = "init_main"
    /\ arg \in Args
    /\ output_dir = SkillsDir
    /\ \E out \in Kinds, pre \in Kinds :
         /\ out # "dir" => pre = "absent"
         /\ files = (IF out = "file" THEN {SkillsDir} ELSE {})
                    \cup (IF pre = "file" THEN {Join(SkillsDir, Lower(arg))} ELSE {})
         /\ dirs = (IF out = "dir" THEN {SkillsDir} ELSE {})
                   \cup (IF pre = "dir" THEN {Join(SkillsDir, Lower(arg))} ELSE {})
    /\ execs = {}
    /\ io \in {"ok", "fail"}
    /\ content = <<>>
    /\ zips = {}
    /\ errors = <<>>
    /\ warnings = <<>>
    /\ is_valid = "unset"
    /\ skill_name = <<>>
    /\ exit_code = -1
    /\ files0 = files
    /\ zips0 = zips

----------------------------------------------------------------------------
(* The runs *)

Init == InitValidate \/ InitPackage \/ InitScaffold

Next ==
    \/ CheckSkillMdExists
    \/ ValidateFrontmatter
    \/ CheckDirectoryStructure
    \/ ValidateScripts
    \/ MainCheckPath
    \/ MainMkdir
    \/ MainReport
    \/ PackageSkill
    \/ InitCheckName
    \/ InitMkdir
    \/ CreateSkillStructure

Spec == Init /\ [][Next]_vars

----------------------------------------------------------------------------
(* Vocabulary of the properties *)

NameErrorIds == {"name_missing", "name_not_string", "name_too_long", "name_bad_chars"}
DescErrorIds == {"description_missing", "description_not_string", "description_too_long"}
FrontmatterWarningIds == {"description_todo", "body_empty", "body_todo"}
StructuralWarningIds ==
    {"no_scripts_dir", "no_references_dir", "scripts_empty", "script_not_executable"}

Ids(findings) == {findings[i].id : i \in DOMAIN findings}
Terminated == pc \in {"exited", "raised", "packaged", "created"}

\* validate() was entered and its existence check is over
PastExistenceCheck ==
    /\ cmd # "init"
    /\ pc \notin {"main", "mkdir", "check_skill_md"}
    /\ skill_path \in dirs
    /\ Prefixes(output_dir) \cap files0 = {}

\* _validate_frontmatter read SKILL.md and returned
FrontmatterRan ==
    /\ cmd # "init"
    /\ skill_md \in files
    /\ (pc \in {"structure", "scripts"} \/ is_valid # "unset")

\* the layout of the text, read off the segments
OpensWithDelim == Len(content) >= 1 /\ content[1] = Delim
DelimCount == Cardinality({i \in DOMAIN content : content[i] = Delim})
Closed == OpensWithDelim /\ DelimCount >= 2
\* the header of a closed text: empty, or the one block before the second delimiter
HeaderOf == IF content[2] = Delim THEN NullDoc ELSE content[2].doc
HeaderIsMapping == Closed /\ HeaderOf.kind = "dict"

----------------------------------------------------------------------------
(* Properties *)

\* C1: validate() returns True if and only if errors is empty when it returns;
\* the warnings play no part in the verdict.
C1_VerdictIffNoErrors ==
    is_valid # "unset" => (is_valid = "True" <=> errors = <<>>)

\* a run that is valid with three or more warnings
C1_Witness == is_valid = "True" /\ errors = <<>> /\ Len(warnings) >= 3

\* C2: the packager builds the archive only after validation passed with no
\* fatal error; with a fatal error the process ends with code 1 and the archive
\* file is neither created nor overwritten; code 0 means validation passed and
\* the archive was written.
C2_PackageOnlyWhenValid ==
    cmd = "package" =>
        /\ (pc \in {"package", "packaged"} \/ files # files0 \/ zips # zips0)
               => (is_valid = "True" /\ errors = <<>>)
        /\ errors # <<>>
               => (files = files0 /\ zips = zips0 /\ (Terminated => exit_code = 1)
                   /\ (~Terminated => exit_code = -1))
        /\ exit_code = 0
               => (is_valid = "True" /\ errors = <<>> /\ pc = "packaged"
                   /\ output_file \in files)

\* a run with a fatal error that left an archive of the same name untouched
C2_Witness ==
    /\ cmd = "package" /\ pc = "exited" /\ exit_code = 1
    /\ errors # <<>> /\ io = "ok"
    /\ output_file \in files /\ zips = OldEntries

\* C4: without SKILL.md validate() records exactly one fatal error, returns
\* False and runs no other check: no warning, whatever scripts/ and references/ are.
C4_MissingSkillMdStopsValidation ==
    (PastExistenceCheck /\ ~Exists(skill_md)) =>
        /\ pc \in {"validated", "exited"}
        /\ is_valid = "False"
        /\ errors = <<Plain("missing_skill_md")>>
        /\ warnings = <<>>

\* SKILL.md missing in a folder whose structure would have drawn warnings
C4_Witness ==
    /\ PastExistenceCheck /\ ~Exists(skill_md) /\ is_valid = "False"
    /\ ~Exists(references_dir)
    /\ \E f \in script_files : f \notin execs

\* C5: when frontmatter validation stops at the opening delimiter, the closing
\* delimiter, the parse or the type check, it adds exactly one fatal error and
\* no warning; the name, description and body checks are skipped.
C5_EarlyStopOneError ==
    (FrontmatterRan /\ ~HeaderIsMapping) =>
        /\ errors = << Plain(IF ~OpensWithDelim THEN "no_frontmatter"
                             ELSE IF ~Closed THEN "frontmatter_not_closed"
                             ELSE IF HeaderOf.kind = "error" THEN "invalid_yaml"
                             ELSE "not_a_mapping") >>
        /\ Ids(warnings) \cap FrontmatterWarningIds = {}
        /\ pc = "structure" => warnings = <<>>

\* no opening delimiter, and behind it a header and a body that would draw findings
C5_Witness ==
    /\ FrontmatterRan /\ is_valid = "False"
    /\ content = <<Text(<<"x">>), Delim, Header(NoFields), Delim>>

\* C3: the entries of the archive package_skill produced are exactly
\* <skill directory name>/<relative path> over the regular files that stood under
\* the skill directory before packaging, wherever the output directory is.
C3_ArchiveIsTheTreeBefore ==
    (cmd = "package" /\ pc = "packaged") =>
        zips = {<<SkillName>> \o RelativeTo(f, skill_path) :
                    f \in {g \in files0 : IsUnder(skill_path, g)}}

\* the findings of the name and description checks, in the order recorded
NameFindings == SelectSeq(errors, LAMBDA m : m.id \in NameErrorIds)
HasDisallowedChar(name) ==
    \E i \in DOMAIN name : name[i] \notin Letters \cup Digits \cup {"-", "_", "."}
IsNonEmptyString(field) == field.present /\ field.isStr /\ field.val # <<>>
ValidDescription(field) == IsNonEmptyString(field) /\ Len(field.val) <= MaxDescLen

\* C6: for a header that is a mapping the name checks add at most one error, the
\* first that applies of missing, not a non-empty string, longer than 64
\* characters, disallowed character; 64 characters pass the length check; a name
\* of 65 characters with a valid description gives exactly one error, which
\* reports 65, and validation fails, also when the name has disallowed characters.
C6_FirstNameFailureOnly ==
    (FrontmatterRan /\ HeaderIsMapping) =>
        LET name == HeaderOf.name IN
        /\ Len(NameFindings) <= 1
        /\ ~name.present => NameFindings = <<Plain("name_missing")>>
        /\ (name.present /\ ~IsNonEmptyString(name))
               => NameFindings = <<Plain("name_not_string")>>
        /\ (IsNonEmptyString(name) /\ Len(name.val) > MaxNameLen)
               => NameFindings = <<Msg("name_too_long", Len(name.val), "")>>
        /\ (IsNonEmptyString(name) /\ Len(name.val) <= MaxNameLen)
               => /\ Ids(NameFindings) \subseteq {"name_bad_chars"}
                  /\ HasDisallowedChar(name.val) => NameFindings = <<Plain("name_bad_chars")>>
        /\ (IsNonEmptyString(name) /\ Len(name.val) = MaxNameLen + 1
            /\ ValidDescription(HeaderOf.description))
               => /\ errors = <<Msg("name_too_long", MaxNameLen + 1, "")>>
                  /\ is_valid # "True"

\* a name of 65 characters, one of them disallowed, beside a valid description
C6_Witness ==
    /\ FrontmatterRan /\ HeaderIsMapping /\ is_valid = "False"
    /\ HeaderOf.name = Str(Fill(<<"!">>, MaxNameLen + 1, "a"))
    /\ ValidDescription(HeaderOf.description)

\* C7: for a name that is a non-empty string of at most 64 characters the
\* character-set error is recorded if and only if the name has a character
\* outside letters, digits, hyphen, underscore, dot.
C7_CharsetErrorIffDisallowedChar ==
    (FrontmatterRan /\ HeaderIsMapping /\ IsNonEmptyString(HeaderOf.name)
     /\ Len(HeaderOf.name.val) <= MaxNameLen)
        => ("name_bad_chars" \in Ids(errors) <=> HasDisallowedChar(HeaderOf.name.val))

\* a non-empty skill name of letters, digits, hyphens and underscores
AllowedArg ==
    arg # <<>> /\ \A i \in DOMAIN arg : arg[i] \in Letters \cup Digits \cup {"-", "_"}
\* the scaffold stands under sd
Scaffolded(sd) ==
    /\ {Join(sd, "SKILL.md"), Join(sd, "README.md"),
        Join(Join(sd, "scripts"), "example.sh"),
        Join(Join(sd, "references"), "reference.md"),
        Join(Join(sd, "assets"), ".gitkeep")} \subseteq files
    /\ Join(Join(sd, "scripts"), "example.sh") \in execs

\* C8: for a non-empty skill name of letters, digits, hyphens and underscores
\* the scaffolder ends with code 0, and <path>/<lower-cased name>/ holds
\* SKILL.md, scripts/example.sh (executable), references/reference.md, README.md
\* and assets/.gitkeep.  Stated of the runs in which no filesystem call fails
\* and no regular file stands in the way.
C8_AllowedNameScaffolds ==
    (cmd = "init" /\ Terminated /\ AllowedArg /\ io = "ok" /\ files0 = {})
        => (exit_code = 0 /\ Scaffolded(Join(output_dir, Lower(arg))))

\* the regular files directly under scripts/ before the run
DirectScripts ==
    {f \in files0 : Len(f) = Len(scripts_dir) + 1 /\ SubSeq(f, 1, Len(scripts_dir)) = scripts_dir}
PlainScripts == DirectScripts \ execs
Count(findings, m) == Cardinality({i \in DOMAIN findings : findings[i] = m})
CountId(findings, id) == Cardinality({i \in DOMAIN findings : findings[i].id = id})

\* validate() ran all its checks and returned
AllChecksRan == cmd # "init" /\ is_valid # "unset" /\ Exists(skill_md)

\* what the structural checks left among the warnings, and the verdict
C9_StructuralFindings ==
    AllChecksRan =>
        /\ "no_scripts_dir" \in Ids(warnings) <=> ~Exists(scripts_dir)
        /\ "no_references_dir" \in Ids(warnings) <=> ~Exists(references_dir)
        /\ "scripts_empty" \in Ids(warnings) <=> (Exists(scripts_dir) /\ DirectScripts = {})
        /\ \A f \in PlainScripts :
               Count(warnings, Msg("script_not_executable", 0, BaseName(f))) = 1
        /\ CountId(warnings, "script_not_executable") = Cardinality(PlainScripts)
        /\ ~({"scripts_empty", "script_not_executable"} \subseteq Ids(warnings))
        /\ CountId(warnings, "no_scripts_dir") <= 1
        /\ CountId(warnings, "no_references_dir") <= 1
        /\ CountId(warnings, "scripts_empty") <= 1
        /\ errors = <<>> => is_valid = "True"

\* the steps of the structural checks leave errors as it is
C9_ErrorsUntouched ==
    (cmd # "init" /\ pc \in {"structure", "scripts"}) => errors' = errors

\* C9: _check_directory_structure and _validate_scripts never change errors;
\* a missing scripts/ or references/, an empty scripts/ and files of scripts/
\* without the execute bit only add warnings, one for each such direct child,
\* naming it, never beside the 'empty' warning; validation passes when the
\* earlier checks recorded no error.
C9_StructuralChecksOnlyWarn == []C9_StructuralFindings /\ [][C9_ErrorsUntouched]_vars

\* a valid run over a folder without references/ and with a plain script
C9_Witness ==
    /\ AllChecksRan /\ is_valid = "True"
    /\ ~Exists(references_dir)
    /\ PlainScripts # {}
    /\ CountId(warnings, "script_not_executable") = Cardinality(PlainScripts)

\* the step a finding comes from
WarningStep(id) ==
    CASE id = "description_todo" -> 1
      [] id \in {"body_empty", "body_todo"} -> 2
      [] id = "no_scripts_dir" -> 3
      [] id = "no_references_dir" -> 4
      [] OTHER -> 5
ErrorStep(id) ==
    CASE id \in NameErrorIds -> 1
      [] id \in DescErrorIds -> 2
      [] OTHER -> 0
InStepOrder(findings, Step(_)) ==
    \A i, j \in DOMAIN findings : i < j => Step(findings[i].id) <= Step(findings[j].id)

\* C10: when SKILL.md exists the structural checks run after the frontmatter
\* validator whatever it found, and the findings stand in step order:
\* description placeholder, body, missing scripts/, missing references/,
\* scripts content among the warnings; name before description among the errors.
C10_ChecksInStepOrder ==
    AllChecksRan =>
        /\ InStepOrder(warnings, WarningStep)
        /\ InStepOrder(errors, ErrorStep)
        /\ ~Exists(scripts_dir) => "no_scripts_dir" \in Ids(warnings)
        /\ ~Exists(references_dir) => "no_references_dir" \in Ids(warnings)
        /\ (scripts_dir \in dirs /\ DirectScripts = {}) => "scripts_empty" \in Ids(warnings)
        /\ PlainScripts # {} => "script_not_executable" \in Ids(warnings)

\* a name error and a description error, a body warning and structural warnings
C10_Witness ==
    /\ AllChecksRan /\ is_valid = "False"
    /\ Ids(errors) \cap NameErrorIds # {}
    /\ Ids(errors) \cap DescErrorIds # {}
    /\ "body_todo" \in Ids(warnings)
    /\ {"no_references_dir", "script_not_executable"} \subseteq Ids(warnings)

====
